---- MODULE Spec2Model ----
(***************************************************************************)
(* ORDER-SERVICE: the permission-gated request pipeline                    *)
(* (app/core/security.py), the order-creation transaction and the read     *)
(* endpoints (app/api/v1/orders.py) over a transactional store reached     *)
(* through one SQLAlchemy session per request (app/db/base.py).            *)
(***************************************************************************)
EXTENDS Integers, Sequences, FiniteSets, TLC

\* ------------------------------------------------------------------ bounds
MaxRequests == 2       \* requests accepted in one behaviour
MaxLines == 3          \* longest order_lines list of a request
MaxOrderId == 2        \* values the order_id sequence hands out
MaxExp == 2            \* exp claims 0..MaxExp (seconds)
TicksPerSecond == 3    \* clock readings between two whole seconds
MaxNow == 7            \* clock readings 0..MaxNow (ticks)
MaxStored == 3         \* order ids of the stores the read endpoints are run on

\* Two workers serve requests concurrently.
Slots == {1, 2}

\* --------------------------------------------------------------- settings
JWT_SECRET_KEY == "secret"
ALGORITHM == "HS256"
MANAGE_ORDERS == "manage_orders_ORDER_SERVICE"
VIEW_ORDERS == "view_orders_ORDER_SERVICE"

\* ------------------------------------------------------------------ tokens
\* A claim that may be absent is a set: {} when absent, {v} when present.
Opt(S) == {{}} \cup {{v} : v \in S}
Get(claim, default) == IF claim = {} THEN default ELSE CHOOSE v \in claim : TRUE

PermissionTags == {MANAGE_ORDERS, VIEW_ORDERS, "manage_orders", "view_orders"}
RoleTags == {"admin", "clerk"}

Claims ==
    [username : Opt({"alice"}), user_id : Opt({1}), exp : Opt(0..MaxExp),
     permissions : Opt(SUBSET PermissionTags), roles : Opt(SUBSET RoleTags)]

NoClaims ==
    [username |-> {}, user_id |-> {}, exp |-> {}, permissions |-> {}, roles |-> {}]

\* A bearer credential: nothing, the empty string, or a JWT carrying the
\* algorithm of its header, its claims and the key its signature was made with.
Credentials ==
    {[cred |-> c, alg |-> ALGORITHM, key |-> JWT_SECRET_KEY, claims |-> NoClaims] :
        c \in {"absent", "empty"}}
    \cup [cred : {"jwt"}, alg : {ALGORITHM, "HS512"},
          key : {JWT_SECRET_KEY, "other"}, claims : Claims]

NoCredentials ==
    [cred |-> "absent", alg |-> ALGORITHM, key |-> JWT_SECRET_KEY, claims |-> NoClaims]

Times == 0..MaxNow

\* jose.jwt.decode as validate_token calls it: the signature must verify under
\* the shared secret with the one allowed algorithm, and an exp claim, when
\* present, is compared with the clock truncated to whole seconds.
jwt_decode(token, key, algorithms, now) ==
    IF token.alg \notin algorithms \/ token.key # key THEN "JWTError"
    ELSE IF token.claims.exp # {} /\ Get(token.claims.exp, 0) < now \div TicksPerSecond
         THEN "JWTError"
    ELSE "ok"

\* jose.jwt.encode as the test calls it: a datetime exp is written into the
\* token as whole seconds since the epoch, the other claims as they are; the
\* token is signed with the key under the algorithm of its header.
jwt_encode(claims, key, algorithm) ==
    [cred |-> "jwt", alg |-> algorithm, key |-> key,
     claims |-> [claims EXCEPT !.exp = {t \div TicksPerSecond : t \in @}]]

Unauthorized(detail) == [status |-> 401, detail |-> detail, payload |-> NoClaims]

\* validate_token without the check of username and user_id.
validate_token_any_subject(credentials, now) ==
    IF credentials.cred \in {"absent", "empty"} THEN Unauthorized("Not authenticated")
    ELSE IF jwt_decode(credentials, JWT_SECRET_KEY, {ALGORITHM}, now) # "ok"
         THEN Unauthorized("Token is invalid or expired.")
    ELSE LET payload == credentials.claims IN
         IF payload.exp = {} \/ Get(payload.exp, 0) * TicksPerSecond < now
            THEN Unauthorized("Token expired")
         ELSE [status |-> 200, detail |-> "", payload |-> payload]

\* validate_token returning the subject of the token only.
validate_token_subject_only(credentials, now) ==
    IF credentials.cred \in {"absent", "empty"} THEN Unauthorized("Not authenticated")
    ELSE IF jwt_decode(credentials, JWT_SECRET_KEY, {ALGORITHM}, now) # "ok"
         THEN Unauthorized("Token is invalid or expired.")
    ELSE LET payload == credentials.claims IN
         IF payload.exp = {} \/ Get(payload.exp, 0) * TicksPerSecond < now
            THEN Unauthorized("Token expired")
         ELSE IF payload.username = {} \/ payload.user_id = {}
            THEN Unauthorized("Token payload is invalid.")
         ELSE [status |-> 200, detail |-> "",
               payload |-> [payload EXCEPT !.permissions = {}, !.roles = {}]]

validate_token(credentials, now) ==
    IF credentials.cred \in {"absent", "empty"} THEN Unauthorized("Not authenticated")
    ELSE IF jwt_decode(credentials, JWT_SECRET_KEY, {ALGORITHM}, now) # "ok"
         THEN Unauthorized("Token is invalid or expired.")
    ELSE LET payload == credentials.claims IN
         IF payload.exp = {} \/ Get(payload.exp, 0) * TicksPerSecond < now
            THEN Unauthorized("Token expired")
         ELSE IF payload.username = {} \/ payload.user_id = {}
            THEN Unauthorized("Token payload is invalid.")
         ELSE [status |-> 200, detail |-> "", payload |-> payload]

\* all() in place of any(): every required permission must be held.
permission_checker_all(required_permissions, payload) ==
    LET user_permissions == Get(payload.permissions, {}) IN
    IF \A permission \in required_permissions : permission \in user_permissions
       THEN 200 ELSE 403

\* any(permission in user_permissions for permission in required_permissions)
permission_checker(required_permissions, payload) ==
    LET user_permissions == Get(payload.permissions, {}) IN
    IF \E permission \in required_permissions : permission \in user_permissions
       THEN 200 ELSE 403

role_checker(required_roles, payload) ==
    LET user_roles == Get(payload.roles, {}) IN
    IF \E role \in required_roles : role \in user_roles THEN 200 ELSE 403

\* ------------------------------------------------------------------ routes
POST_ORDERS == "POST /orders/"
GET_ORDERS == "GET /orders/"
GET_ORDER == "GET /orders/{order_id}"
Routes == {POST_ORDERS, GET_ORDERS, GET_ORDER}

\* POST /orders/ guarded like the two GET routes.
RoutePermissions_read(r) == {MANAGE_ORDERS, VIEW_ORDERS}

\* The dependencies=[Depends(check_permissions([...]))] of each route.
RoutePermissions(r) ==
    IF r = POST_ORDERS THEN {MANAGE_ORDERS} ELSE {MANAGE_ORDERS, VIEW_ORDERS}

\* ---------------------------------------------------- the transactional store
\* The committed tables order_headers and order_lines.
NoRows == [headers |-> {}, lines |-> {}]

\* A session (SessionLocal(), autoflush=False): objects added and not yet
\* flushed, and the rows its open transaction has written and not committed.
NoSession ==
    [state |-> "none", pendingHeaders |-> <<>>, pendingLines |-> <<>>,
     txHeaders |-> {}, txLines |-> {}]

SessionLocal == [NoSession EXCEPT !.state = "open"]

Range(q) == {q[i] : i \in 1..Len(q)}

add_header(session, header) ==
    [session EXCEPT !.pendingHeaders = Append(@, header)]

add_line(session, line) ==
    [session EXCEPT !.pendingLines = Append(@, line)]

\* A flush that takes the primary key from the sequence without advancing it.
flush_same_id(session, seq) ==
    LET n == Len(session.pendingHeaders)
        hs == {[order_id |-> seq + i - 1,
                user_id |-> session.pendingHeaders[i].user_id,
                total_items |-> session.pendingHeaders[i].total_items] : i \in 1..n}
    IN [session |-> [session EXCEPT !.pendingHeaders = <<>>, !.pendingLines = <<>>,
                                    !.txHeaders = @ \cup hs,
                                    !.txLines = @ \cup Range(session.pendingLines)],
        seq |-> seq]

\* db.flush(): INSERTs the pending objects inside the open transaction; the
\* autoincrement primary key of each new header comes from the sequence.
flush(session, seq) ==
    LET n == Len(session.pendingHeaders)
        hs == {[order_id |-> seq + i - 1,
                user_id |-> session.pendingHeaders[i].user_id,
                total_items |-> session.pendingHeaders[i].total_items] : i \in 1..n}
    IN [session |-> [session EXCEPT !.pendingHeaders = <<>>, !.pendingLines = <<>>,
                                    !.txHeaders = @ \cup hs,
                                    !.txLines = @ \cup Range(session.pendingLines)],
        seq |-> seq + n]

\* A commit that leaves the tables holding the rows of the transaction only.
commit_replacing(database, session, seq) ==
    LET f == flush(session, seq) IN
    [database |-> [headers |-> f.session.txHeaders, lines |-> f.session.txLines],
     session |-> SessionLocal,
     seq |-> f.seq]

\* db.commit(): flushes, then makes every row of the transaction visible at once.
commit(database, session, seq) ==
    LET f == flush(session, seq) IN
    [database |-> [headers |-> database.headers \cup f.session.txHeaders,
                   lines |-> database.lines \cup f.session.txLines],
     session |-> SessionLocal,
     seq |-> f.seq]

\* db.rollback(): the transaction's rows and the pending objects are discarded.
rollback(session) == [NoSession EXCEPT !.state = session.state]

\* db.close() in get_db's finally: the connection goes back to the pool, which
\* rolls back whatever transaction is still open.
close(session) == [NoSession EXCEPT !.state = "closed"]

\* The select without its where clause.
select_header_unfiltered(rows, order_id) == rows.headers

\* select(OrderHeader).where(OrderHeader.order_id == order_id) ... .first()
select_header(rows, order_id) == {h \in rows.headers : h.order_id = order_id}

\* The order_lines relationship of a loaded header, loaded on access.
order_lines_of(rows, header) == {l \in rows.lines : l.order_id = header.order_id}

\* ------------------------------------------------------------ request inputs
Line(item_id, quantity) == [item_id |-> item_id, quantity |-> quantity]

\* Bodies of POST /orders/: 0..MaxLines lines over two items, neighbours
\* differing; those of even length name a total_items of 1, the others none.
OrderRequests ==
    {[user_id |-> 1,
      total_items |-> IF n % 2 = 0 THEN {1} ELSE {},
      order_lines |-> [k \in 1..n |-> Line((k % 2) + 1, 2 - (k % 2))]] :
        n \in 0..MaxLines}

\* The validator accepting every list.
check_list_items_any(v) == TRUE

\* The pydantic schema OrderHeaderCreateRequest with OrderLineCreateRequest.
check_list_items_not_empty(v) == Len(v) >= 1

ValidOrderRequest(b) ==
    /\ b.user_id > 0
    /\ b.total_items = {} \/ Get(b.total_items, 0) > 0
    /\ \A k \in 1..Len(b.order_lines) :
          b.order_lines[k].item_id > 0 /\ b.order_lines[k].quantity > 0
    /\ check_list_items_not_empty(b.order_lines)

NoRequest == [user_id |-> 0, total_items |-> {}, order_lines |-> <<>>]

\* Bearer credentials the requests of the pipeline arrive with.
GoodClaims(perms) ==
    [username |-> {"alice"}, user_id |-> {1}, exp |-> {MaxExp},
     permissions |-> {perms}, roles |-> {}]

SampleCredentials ==
    {NoCredentials}
    \cup {[cred |-> "jwt", alg |-> ALGORITHM, key |-> JWT_SECRET_KEY, claims |-> GoodClaims(p)] :
            p \in {{MANAGE_ORDERS}, {VIEW_ORDERS}, {"manage_orders"}, {}}}
    \cup {[cred |-> "jwt", alg |-> ALGORITHM, key |-> "other", claims |-> GoodClaims({MANAGE_ORDERS})]}

\* What the inventory service's PATCH can come back with: a status code, or
\* no response at all (requests.patch raises).
InventoryOutcomes ==
    {[raised |-> FALSE, status_code |-> c] : c \in {200, 204, 400}}
    \cup {[raised |-> TRUE, status_code |-> 0]}

\* Failures of the database driver at flush or commit.
DbErrors == {"IntegrityError", "SQLAlchemyError"}

NoResponse == [status |-> 0, detail |-> "", order |-> 0, content |-> <<>>]
Error(status, detail) == [NoResponse EXCEPT !.status = status, !.detail = detail]

\* The except clauses of create_order, by the class of what was raised.
create_order_except(exc) ==
    IF exc = "IntegrityError" THEN Error(400, "integrity error")
    ELSE Error(500, "An error occurred while processing the checkout.")

\* ------------------------------------------------------------------- state
VARIABLES
    db,             \* committed rows
    seq,            \* next value of the order_id sequence
    arrivals,       \* requests accepted so far
    pc,             \* where each request stands
    route,          \* its route
    credentials,    \* its bearer credential
    payload,        \* the claims validate_token returned
    trace,          \* the components that have run for it, in order
    order_request,  \* the parsed body of POST /orders/
    param,          \* path and query parameters of the GET routes
    session,        \* the session get_db yielded
    new_order,      \* new_order.order_id
    index,          \* lines of the loop completed
    calls,          \* inventory calls issued, in order
    replies,        \* what each call came back with
    order_model,    \* headers a read handler selected
    response,       \* the response (status 0: none yet)
    guard           \* one run of the guard functions on inputs of its own

reqvars == <<pc, route, credentials, payload, trace, order_request, param, session,
             new_order, index, calls, replies, order_model, response>>
vars == <<db, seq, arrivals, reqvars, guard>>

NoParam == [order_id |-> 0, limit |-> {}, order_by |-> {}, ascending |-> TRUE]

\* Dirty reads: a statement also reads the uncommitted rows of the other sessions.
visible_uncommitted(database, own) ==
    [headers |-> database.headers \cup own.txHeaders
                    \cup UNION {session[t].txHeaders : t \in DOMAIN session},
     lines |-> database.lines \cup own.txLines
                    \cup UNION {session[t].txLines : t \in DOMAIN session}]

\* What a statement of a session reads: the committed rows and the rows of its
\* own open transaction.
visible(database, own) ==
    [headers |-> database.headers \cup own.txHeaders,
     lines |-> database.lines \cup own.txLines]

\* The guard functions before they are applied to anything.
NoGuard ==
    [pc |-> "idle", encoded |-> NoClaims, credentials |-> NoCredentials, now |-> 0,
     required |-> {}, validated |-> Unauthorized(""), status |-> 0]

\* Nothing committed, no request in service.
InitRequests ==
    /\ db = NoRows
    /\ seq = 1
    /\ arrivals = 0
    /\ pc = [s \in Slots |-> "idle"]
    /\ route = [s \in Slots |-> POST_ORDERS]
    /\ credentials = [s \in Slots |-> NoCredentials]
    /\ payload = [s \in Slots |-> NoClaims]
    /\ trace = [s \in Slots |-> <<>>]
    /\ order_request = [s \in Slots |-> NoRequest]
    /\ param = [s \in Slots |-> NoParam]
    /\ session = [s \in Slots |-> NoSession]
    /\ new_order = [s \in Slots |-> 0]
    /\ index = [s \in Slots |-> 0]
    /\ calls = [s \in Slots |-> <<>>]
    /\ replies = [s \in Slots |-> <<>>]
    /\ order_model = [s \in Slots |-> <<>>]
    /\ response = [s \in Slots |-> NoResponse]

Init == InitRequests /\ guard = NoGuard

\* ------------------------------------------------------------ the pipeline
Others == <<db, seq, arrivals, guard>>

\* A request arrives at one of the three routes and is served by the first
\* free worker.
Arrive(s) ==
    /\ pc[s] = "idle"
    /\ \A t \in Slots : t < s => pc[t] # "idle"
    /\ arrivals < MaxRequests
    /\ arrivals' = arrivals + 1
    /\ \E r \in Routes, c \in SampleCredentials :
          /\ route' = [route EXCEPT ![s] = r]
          /\ credentials' = [credentials EXCEPT ![s] = c]
    /\ pc' = [pc EXCEPT ![s] = "validate_token"]
    /\ UNCHANGED <<db, seq, guard, payload, trace, order_request, param, session,
                   new_order, index, calls, replies, order_model, response>>

\* validate_token handing its result on instead of raising.
ValidateToken_no_raise(s) ==
    /\ pc[s] = "validate_token"
    /\ \E now \in Times :
          payload' = [payload EXCEPT ![s] = validate_token(credentials[s], now).payload]
    /\ pc' = [pc EXCEPT ![s] = "permission_checker"]
    /\ trace' = [trace EXCEPT ![s] = Append(@, "validate_token")]
    /\ UNCHANGED <<Others, route, credentials, order_request, param, session, new_order,
                   index, calls, replies, order_model, response>>

\* Depends(validate_token), the sub-dependency of permission_checker.
ValidateToken(s) ==
    /\ pc[s] = "validate_token"
    /\ \E now \in Times :
          LET v == validate_token(credentials[s], now) IN
          /\ payload' = [payload EXCEPT ![s] = v.payload]
          /\ IF v.status = 200
                THEN /\ pc' = [pc EXCEPT ![s] = "permission_checker"]
                     /\ UNCHANGED response
                ELSE /\ pc' = [pc EXCEPT ![s] = "exit"]
                     /\ response' = [response EXCEPT ![s] = Error(v.status, v.detail)]
    /\ trace' = [trace EXCEPT ![s] = Append(@, "validate_token")]
    /\ UNCHANGED <<Others, route, credentials, order_request, param, session, new_order,
                   index, calls, replies, order_model>>

\* The permission check recording its 403 and letting the request go on.
PermissionChecker_no_raise(s) ==
    /\ pc[s] = "permission_checker"
    /\ IF permission_checker(RoutePermissions(route[s]), payload[s]) = 200
          THEN UNCHANGED response
          ELSE response' = [response EXCEPT ![s] =
                  Error(403, "Operation not permitted because of insufficient permissions")]
    /\ pc' = [pc EXCEPT ![s] = "request_validation"]
    /\ trace' = [trace EXCEPT ![s] = Append(@, "permission_checker")]
    /\ UNCHANGED <<Others, route, credentials, payload, order_request, param, session,
                   new_order, index, calls, replies, order_model>>

\* Depends(check_permissions([...])) of the route.
PermissionChecker(s) ==
    /\ pc[s] = "permission_checker"
    /\ IF permission_checker(RoutePermissions(route[s]), payload[s]) = 200
          THEN /\ pc' = [pc EXCEPT ![s] = "request_validation"]
               /\ UNCHANGED response
          ELSE /\ pc' = [pc EXCEPT ![s] = "exit"]
               /\ response' = [response EXCEPT ![s] =
                     Error(403, "Operation not permitted because of insufficient permissions")]
    /\ trace' = [trace EXCEPT ![s] = Append(@, "permission_checker")]
    /\ UNCHANGED <<Others, route, credentials, payload, order_request, param, session,
                   new_order, index, calls, replies, order_model>>

\* get_db yields a session; the body of POST /orders/ is validated against
\* OrderHeaderCreateRequest; a body that passes enters create_order.
ValidateOrderRequest(s) ==
    /\ pc[s] = "request_validation" /\ route[s] = POST_ORDERS
    /\ session' = [session EXCEPT ![s] = SessionLocal]
    /\ \E b \in OrderRequests :
          /\ order_request' = [order_request EXCEPT ![s] = b]
          /\ IF ValidOrderRequest(b)
                THEN /\ pc' = [pc EXCEPT ![s] = "create_order"]
                     /\ trace' = [trace EXCEPT ![s] = Append(@, "create_order")]
                     /\ UNCHANGED response
                ELSE /\ pc' = [pc EXCEPT ![s] = "exit"]
                     /\ trace' = trace
                     /\ response' = [response EXCEPT ![s] = Error(422, "InvalidRequest")]
    /\ UNCHANGED <<Others, route, credentials, payload, param, new_order, index, calls,
                   replies, order_model>>

\* The header taking total_items from the request body when the body names one.
OrderHeader_from_body(request) ==
    [user_id |-> request.user_id,
     total_items |-> Get(request.total_items, Len(request.order_lines))]

\* create_order, lines 79-82: OrderHeader(user_id=..., total_items=len(order_lines)).
OrderHeader(request) ==
    [user_id |-> request.user_id, total_items |-> Len(request.order_lines)]

\* create_order, lines 79-84: the header is added and flushed.
StageHeader(s) ==
    /\ pc[s] = "create_order"
    /\ seq <= MaxOrderId
    /\ LET f == flush(add_header(session[s], OrderHeader(order_request[s])), seq)
       IN \/ /\ session' = [session EXCEPT ![s] = f.session]
             /\ seq' = f.seq
             /\ new_order' = [new_order EXCEPT ![s] = seq]
             /\ pc' = [pc EXCEPT ![s] = "loop"]
             /\ UNCHANGED response
          \/ \E e \in DbErrors :
                /\ session' = [session EXCEPT ![s] = rollback(@)]
                /\ response' = [response EXCEPT ![s] = create_order_except(e)]
                /\ pc' = [pc EXCEPT ![s] = "exit"]
                /\ UNCHANGED <<seq, new_order>>
    /\ UNCHANGED <<db, arrivals, guard, route, credentials, payload, trace, order_request,
                   param, index, calls, replies, order_model>>

\* The line the loop of create_order builds at position k (1-based).
OrderLine(order_id, k, item) ==
    [order_id |-> order_id, line_number |-> k,
     item_id |-> item.item_id, quantity |-> item.quantity]

\* The PATCH /items/{item_id}?change_quantity={quantity} of one line.
InventoryCall(item) == [item_id |-> item.item_id, change_quantity |-> item.quantity]

\* The loop running over all lines but the last.
loop_skips_last(i, order_lines) == i < Len(order_lines) - 1

\* for index, item in enumerate(order_request.order_lines): is there a next item?
loop_has_next(i, order_lines) == i < Len(order_lines)

\* create_order, lines 87-107: the next line is added to the session and the
\* inventory service is called for it; the handler blocks on the call.
AddLineAndCall(s) ==
    /\ pc[s] = "loop"
    /\ loop_has_next(index[s], order_request[s].order_lines)
    /\ LET item == order_request[s].order_lines[index[s] + 1] IN
       /\ session' = [session EXCEPT ![s] =
             add_line(@, OrderLine(new_order[s], index[s] + 1, item))]
       /\ calls' = [calls EXCEPT ![s] = Append(@, InventoryCall(item))]
    /\ pc' = [pc EXCEPT ![s] = "inventory"]
    /\ UNCHANGED <<Others, route, credentials, payload, trace, order_request, param,
                   new_order, index, replies, order_model, response>>

\* Best effort instead of fail fast: a failed call does not stop the loop.
on_inventory_best_effort(outcome) == "next"

\* What create_order does with the outcome of the call: "next" line, "rollback"
\* and HTTPException(400), or "raise" into except Exception.
on_inventory(outcome) ==
    IF outcome.raised THEN "raise"
    ELSE IF outcome.status_code # 200 THEN "rollback"
    ELSE "next"

\* A saga: a failed call is followed by a re-incrementing call for every line
\* the service had already decremented.
InventoryReturns_compensating(s) ==
    /\ pc[s] = "inventory"
    /\ \E outcome \in InventoryOutcomes :
          /\ replies' = [replies EXCEPT ![s] = Append(@, outcome)]
          /\ LET to == on_inventory(outcome) IN
             /\ session' = [session EXCEPT ![s] = IF to = "next" THEN @ ELSE rollback(@)]
             /\ index' = [index EXCEPT ![s] = IF to = "next" THEN @ + 1 ELSE @]
             /\ pc' = [pc EXCEPT ![s] = IF to = "next" THEN "loop" ELSE "exit"]
             /\ calls' = [calls EXCEPT ![s] =
                   IF to = "next" THEN @
                   ELSE @ \o [j \in 1..index[s] |->
                                [item_id |-> calls[s][j].item_id,
                                 change_quantity |-> 0 - calls[s][j].change_quantity]]]
             /\ response' = [response EXCEPT ![s] =
                   IF to = "next" THEN @ ELSE Error(400, "Failed to update item quantity")]
    /\ UNCHANGED <<Others, route, credentials, payload, trace, order_request, param,
                   new_order, order_model>>

\* A failed call sending the loop back to the same line.
InventoryReturns_retrying(s) ==
    /\ pc[s] = "inventory"
    /\ \E outcome \in InventoryOutcomes :
          /\ replies' = [replies EXCEPT ![s] = Append(@, outcome)]
          /\ index' = [index EXCEPT ![s] = IF on_inventory(outcome) = "next" THEN @ + 1 ELSE @]
    /\ pc' = [pc EXCEPT ![s] = "loop"]
    /\ UNCHANGED <<Others, route, credentials, payload, trace, order_request, param, session,
                   new_order, calls, order_model, response>>

\* create_order, lines 104-113 and 142-153: the call comes back.
InventoryReturns(s) ==
    /\ pc[s] = "inventory"
    /\ \E outcome \in InventoryOutcomes :
          /\ replies' = [replies EXCEPT ![s] = Append(@, outcome)]
          /\ LET to == on_inventory(outcome) IN
             /\ session' = [session EXCEPT ![s] = IF to = "rollback" THEN rollback(@) ELSE @]
             /\ index' = [index EXCEPT ![s] = IF to = "next" THEN @ + 1 ELSE @]
             /\ pc' = [pc EXCEPT ![s] = IF to = "next" THEN "loop" ELSE "exit"]
             /\ response' = [response EXCEPT ![s] =
                   IF to = "rollback" THEN Error(400, "Failed to update item quantity")
                   ELSE IF to = "raise" THEN create_order_except("Exception")
                   ELSE @]
    /\ UNCHANGED <<Others, route, credentials, payload, trace, order_request, param,
                   new_order, calls, order_model>>

\* create_order, line 116: db.commit() once the loop has run out.
Commit(s) ==
    /\ pc[s] = "loop"
    /\ ~loop_has_next(index[s], order_request[s].order_lines)
    /\ \/ LET c == commit(db, session[s], seq) IN
          /\ db' = c.database
          /\ session' = [session EXCEPT ![s] = c.session]
          /\ seq' = c.seq
          /\ pc' = [pc EXCEPT ![s] = "refetch"]
          /\ UNCHANGED response
       \/ \E e \in DbErrors :
             /\ session' = [session EXCEPT ![s] = rollback(@)]
             /\ response' = [response EXCEPT ![s] = create_order_except(e)]
             /\ pc' = [pc EXCEPT ![s] = "exit"]
             /\ UNCHANGED <<db, seq>>
    /\ UNCHANGED <<arrivals, guard, route, credentials, payload, trace, order_request,
                   param, new_order, index, calls, replies, order_model>>

\* What db.execute of the select after the commit can raise.
RefetchErrors == {"SQLAlchemyError"}

\* create_order, lines 120-131: the committed header is fetched again; the
\* select runs in a new transaction of the session and can fail like any
\* other statement, which the except clauses answer.
Refetch(s) ==
    /\ pc[s] = "refetch"
    /\ \/ LET order_header_result == select_header(visible(db, session[s]), new_order[s]) IN
          response' = [response EXCEPT ![s] =
             IF order_header_result = {}
                THEN Error(500, "Failed to fetch the committed order.")
                ELSE [NoResponse EXCEPT !.status = 201, !.detail = "Order created successfully",
                                        !.order = (CHOOSE h \in order_header_result : TRUE).order_id]]
       \/ \E e \in RefetchErrors :
             response' = [response EXCEPT ![s] = create_order_except(e)]
    /\ pc' = [pc EXCEPT ![s] = "exit"]
    /\ UNCHANGED <<Others, route, credentials, payload, trace, order_request, param, session,
                   new_order, index, calls, replies, order_model>>

\* -------------------------------------------------------------- the readers
\* Path(gt=0) of GET /orders/{order_id}; get_db yields a session.
ValidateReadOrder(s) ==
    /\ pc[s] = "request_validation" /\ route[s] = GET_ORDER
    /\ session' = [session EXCEPT ![s] = SessionLocal]
    /\ \E id \in 0..MaxOrderId :
          /\ param' = [param EXCEPT ![s] = [NoParam EXCEPT !.order_id = id]]
          /\ IF id > 0
                THEN /\ pc' = [pc EXCEPT ![s] = "read_order"]
                     /\ trace' = [trace EXCEPT ![s] = Append(@, "read_order")]
                     /\ UNCHANGED response
                ELSE /\ pc' = [pc EXCEPT ![s] = "exit"]
                     /\ trace' = trace
                     /\ response' = [response EXCEPT ![s] = Error(422, "InvalidRequest")]
    /\ UNCHANGED <<Others, route, credentials, payload, order_request, new_order, index,
                   calls, replies, order_model>>

\* GET /orders/ has no parameter that can be rejected; get_db yields a session.
ValidateReadAll(s) ==
    /\ pc[s] = "request_validation" /\ route[s] = GET_ORDERS
    /\ session' = [session EXCEPT ![s] = SessionLocal]
    /\ pc' = [pc EXCEPT ![s] = "read_all_orders"]
    /\ trace' = [trace EXCEPT ![s] = Append(@, "read_all_orders")]
    /\ UNCHANGED <<Others, route, credentials, payload, order_request, param, new_order,
                   index, calls, replies, order_model, response>>

\* read_order, lines 267-277.
ReadOrder(s) ==
    /\ pc[s] = "read_order"
    /\ LET found == select_header(visible(db, session[s]), param[s].order_id) IN
       IF found = {}
          THEN /\ response' = [response EXCEPT ![s] = Error(404, "order not found")]
               /\ pc' = [pc EXCEPT ![s] = "exit"]
               /\ UNCHANGED order_model
          ELSE /\ order_model' = [order_model EXCEPT ![s] = <<CHOOSE h \in found : TRUE>>]
               /\ pc' = [pc EXCEPT ![s] = "serialize"]
               /\ UNCHANGED response
    /\ UNCHANGED <<Others, route, credentials, payload, trace, order_request, param, session,
                   new_order, index, calls, replies>>

allowed_columns == {"order_id", "total_items", "created_at"}

\* read_all_orders, lines 204-208: the column the result is ordered by.
order_by_column(order_by) ==
    LET asked == Get(order_by, "order_id") IN
    IF asked \in allowed_columns THEN asked ELSE "order_id"

ColumnOf(h, column) == IF column = "total_items" THEN h.total_items ELSE h.order_id

\* ORDER BY column ASC whatever the ascending parameter says.
Orderings_ascending(rows, column, ascending) ==
    {q \in [1..Cardinality(rows) -> rows] :
        /\ \A i, j \in 1..Cardinality(rows) : i # j => q[i] # q[j]
        /\ \A i, j \in 1..Cardinality(rows) : i < j =>
              ColumnOf(q[i], column) <= ColumnOf(q[j], column)}

\* The orders ORDER BY column ASC|DESC can return the rows in: rows that tie
\* on the column come in any order.
Orderings(rows, column, ascending) ==
    {q \in [1..Cardinality(rows) -> rows] :
        /\ \A i, j \in 1..Cardinality(rows) : i # j => q[i] # q[j]
        /\ \A i, j \in 1..Cardinality(rows) : i < j =>
              IF ascending THEN ColumnOf(q[i], column) <= ColumnOf(q[j], column)
                           ELSE ColumnOf(q[i], column) >= ColumnOf(q[j], column)}

Limit(q, limit) ==
    IF limit = {} \/ Get(limit, 0) >= Len(q) THEN q ELSE SubSeq(q, 1, Get(limit, 0))

\* The query strings of GET /orders/: limit, order_by, ascending.
Queries ==
    [order_id : {0}, limit : Opt({1}), order_by : Opt({"total_items", "bogus"}),
     ascending : BOOLEAN]

\* read_all_orders, lines 193-221.
ReadAllOrders(s) ==
    /\ pc[s] = "read_all_orders"
    /\ \E query \in Queries :
          /\ param' = [param EXCEPT ![s] = query]
          /\ \E q \in Orderings(visible(db, session[s]).headers,
                                order_by_column(query.order_by), query.ascending) :
                order_model' = [order_model EXCEPT ![s] = Limit(q, query.limit)]
    /\ pc' = [pc EXCEPT ![s] = "serialize"]
    /\ UNCHANGED <<Others, route, credentials, payload, trace, order_request, session,
                   new_order, index, calls, replies, response>>

\* response_model=OrderHeaderReadRequest: the returned headers are serialized,
\* which loads the order_lines relationship of each.
Representation(rows, h) ==
    [order_id |-> h.order_id, user_id |-> h.user_id, total_items |-> h.total_items,
     order_lines |-> order_lines_of(rows, h)]

Serialize(s) ==
    /\ pc[s] = "serialize"
    /\ response' = [response EXCEPT ![s] =
          [NoResponse EXCEPT !.status = 200,
             !.content = [i \in 1..Len(order_model[s]) |->
                            Representation(visible(db, session[s]), order_model[s][i])]]]
    /\ pc' = [pc EXCEPT ![s] = "exit"]
    /\ UNCHANGED <<Others, route, credentials, payload, trace, order_request, param, session,
                   new_order, index, calls, replies, order_model>>

\* ------------------------------------------------------- leaving the request
\* get_db, lines 24-25: the handler has returned or raised and finally runs
\* db.close() on the session it yielded; the request is over and the worker is
\* free for the next one.
CloseSession(s) ==
    /\ pc[s] = "exit"
    /\ pc' = [pc EXCEPT ![s] = "idle"]
    /\ session' = [session EXCEPT ![s] = [close(@) EXCEPT !.state = "none"]]
    /\ route' = [route EXCEPT ![s] = POST_ORDERS]
    /\ credentials' = [credentials EXCEPT ![s] = NoCredentials]
    /\ payload' = [payload EXCEPT ![s] = NoClaims]
    /\ trace' = [trace EXCEPT ![s] = <<>>]
    /\ order_request' = [order_request EXCEPT ![s] = NoRequest]
    /\ param' = [param EXCEPT ![s] = NoParam]
    /\ new_order' = [new_order EXCEPT ![s] = 0]
    /\ index' = [index EXCEPT ![s] = 0]
    /\ calls' = [calls EXCEPT ![s] = <<>>]
    /\ replies' = [replies EXCEPT ![s] = <<>>]
    /\ order_model' = [order_model EXCEPT ![s] = <<>>]
    /\ response' = [response EXCEPT ![s] = NoResponse]
    /\ UNCHANGED Others

Next ==
    \E s \in Slots :
        \/ Arrive(s)
        \/ ValidateToken(s)
        \/ PermissionChecker(s)
        \/ ValidateOrderRequest(s)
        \/ StageHeader(s)
        \/ AddLineAndCall(s)
        \/ InventoryReturns(s)
        \/ Commit(s)
        \/ Refetch(s)
        \/ ValidateReadOrder(s)
        \/ ValidateReadAll(s)
        \/ ReadOrder(s)
        \/ ReadAllOrders(s)
        \/ Serialize(s)
        \/ CloseSession(s)

Spec == Init /\ [][Next]_vars

\* ------------------------------------------------ every operation returns
\* The steps of create_order and of get_db's finally: with every inventory
\* call and every database operation returning, a request inside create_order
\* goes on.
Handler(s) ==
    \/ StageHeader(s)
    \/ AddLineAndCall(s)
    \/ InventoryReturns(s)
    \/ Commit(s)
    \/ Refetch(s)
    \/ CloseSession(s)

\* create_order on its own: every worker serves a POST /orders/ request that
\* has passed the guard, and the requests run concurrently to their ends.
InitCreate ==
    /\ db = NoRows
    /\ seq = 1
    /\ arrivals = Cardinality(Slots)
    /\ guard = NoGuard
    /\ pc = [s \in Slots |-> "request_validation"]
    /\ route = [s \in Slots |-> POST_ORDERS]
    /\ LET token == jwt_encode(GoodClaims({MANAGE_ORDERS}), JWT_SECRET_KEY, ALGORITHM) IN
       /\ credentials = [s \in Slots |-> token]
       /\ payload = [s \in Slots |-> token.claims]
    /\ trace = [s \in Slots |-> <<"validate_token", "permission_checker">>]
    /\ order_request = [s \in Slots |-> NoRequest]
    /\ param = [s \in Slots |-> NoParam]
    /\ session = [s \in Slots |-> NoSession]
    /\ new_order = [s \in Slots |-> 0]
    /\ index = [s \in Slots |-> 0]
    /\ calls = [s \in Slots |-> <<>>]
    /\ replies = [s \in Slots |-> <<>>]
    /\ order_model = [s \in Slots |-> <<>>]
    /\ response = [s \in Slots |-> NoResponse]

NextCreate == \E s \in Slots : ValidateOrderRequest(s) \/ Handler(s)

SpecCreate == InitCreate /\ [][NextCreate]_vars /\ \A s \in Slots : WF_vars(Handler(s))

\* ------------------------------------------- the guard functions on their own
\* validate_token, permission_checker and role_checker applied to every
\* credential, clock reading and required list of the bounded input sets.
InitGuard ==
    /\ InitRequests
    /\ \E c \in Credentials, now \in Times :
          guard = [NoGuard EXCEPT !.credentials = c, !.now = now]

\* The claims the test encodes: username, user_id, roles, permissions and an
\* exp that is a datetime, here a clock reading in ticks.
TestClaims ==
    [username : {{"alice"}}, user_id : {{1}}, exp : {{t} : t \in Times},
     permissions : {{{}}, {{MANAGE_ORDERS, VIEW_ORDERS}}},
     roles : {{{}}, {{"admin"}}}]

\* test_validate_token_valid, lines 17-26: a token is made from the claims.
ApplyEncode ==
    /\ guard.pc = "idle" /\ guard.credentials = NoCredentials /\ guard.encoded = NoClaims
    /\ \E encode \in TestClaims :
          guard' = [guard EXCEPT !.encoded = encode,
                       !.credentials = jwt_encode(encode, JWT_SECRET_KEY, ALGORITHM)]
    /\ UNCHANGED <<db, seq, arrivals, reqvars>>

ApplyValidateToken ==
    /\ guard.pc = "idle"
    /\ guard' = [guard EXCEPT !.pc = "validate_token",
                              !.validated = validate_token(guard.credentials, guard.now)]
    /\ UNCHANGED <<db, seq, arrivals, reqvars>>

ApplyPermissionChecker ==
    /\ guard.pc = "validate_token" /\ guard.validated.status = 200
    /\ \E required \in SUBSET PermissionTags :
          guard' = [guard EXCEPT !.pc = "permission_checker", !.required = required,
                       !.status = permission_checker(required, guard.validated.payload)]
    /\ UNCHANGED <<db, seq, arrivals, reqvars>>

ApplyRoleChecker ==
    /\ guard.pc = "validate_token" /\ guard.validated.status = 200
    /\ \E required \in SUBSET RoleTags :
          guard' = [guard EXCEPT !.pc = "role_checker", !.required = required,
                       !.status = role_checker(required, guard.validated.payload)]
    /\ UNCHANGED <<db, seq, arrivals, reqvars>>

NextGuard == ApplyEncode \/ ApplyValidateToken \/ ApplyPermissionChecker \/ ApplyRoleChecker

SpecGuard == InitGuard /\ [][NextGuard]_vars

\* ------------------------------------------- the read endpoints on their own
\* read_order and read_all_orders run for a request that has passed the guard,
\* on every store that create_order requests can have left behind: each order
\* id unused (its request failed) or holding the rows create_order commits for
\* a valid body.
ValidBodies == {b \in OrderRequests : ValidOrderRequest(b)}

OrderRows(id, b) ==
    [headers |-> {[order_id |-> id, user_id |-> OrderHeader(b).user_id,
                   total_items |-> OrderHeader(b).total_items]},
     lines |-> {OrderLine(id, k, b.order_lines[k]) : k \in 1..Len(b.order_lines)}]

Stores ==
    {[headers |-> UNION {OrderRows(id, f[id]).headers : id \in {i \in 1..MaxStored : f[i] # NoRequest}},
      lines |-> UNION {OrderRows(id, f[id]).lines : id \in {i \in 1..MaxStored : f[i] # NoRequest}}] :
        f \in [1..MaxStored -> ValidBodies \cup {NoRequest}]}

Reader == 1

InitRead ==
    /\ db \in Stores
    /\ seq = MaxStored + 1
    /\ arrivals = 1
    /\ guard = NoGuard
    /\ pc = [s \in Slots |-> IF s = Reader THEN "request_validation" ELSE "idle"]
    /\ \E r \in {GET_ORDERS, GET_ORDER} :
          route = [s \in Slots |-> IF s = Reader THEN r ELSE POST_ORDERS]
    /\ LET token == jwt_encode(GoodClaims({VIEW_ORDERS}), JWT_SECRET_KEY, ALGORITHM) IN
       /\ credentials = [s \in Slots |-> IF s = Reader THEN token ELSE NoCredentials]
       /\ payload = [s \in Slots |-> IF s = Reader THEN token.claims ELSE NoClaims]
    /\ trace = [s \in Slots |->
          IF s = Reader THEN <<"validate_token", "permission_checker">> ELSE <<>>]
    /\ order_request = [s \in Slots |-> NoRequest]
    /\ param = [s \in Slots |-> NoParam]
    /\ session = [s \in Slots |-> NoSession]
    /\ new_order = [s \in Slots |-> 0]
    /\ index = [s \in Slots |-> 0]
    /\ calls = [s \in Slots |-> <<>>]
    /\ replies = [s \in Slots |-> <<>>]
    /\ order_model = [s \in Slots |-> <<>>]
    /\ response = [s \in Slots |-> NoResponse]

NextRead ==
    \/ ValidateReadOrder(Reader)
    \/ ValidateReadAll(Reader)
    \/ ReadOrder(Reader)
    \/ ReadAllOrders(Reader)
    \/ Serialize(Reader)
    \/ CloseSession(Reader)

SpecRead == InitRead /\ [][NextRead]_vars

\* ================================================================== claims
\* An inventory outcome that is a failure in the words of the specification:
\* no response at all, or a status outside 2xx.
Failure(outcome) == outcome.raised \/ outcome.status_code \notin 200..299

\* The position of the first failed inventory call of a request, 0 if none.
FirstFailure(s) ==
    IF \E k \in 1..Len(replies[s]) : Failure(replies[s][k])
       THEN CHOOSE k \in 1..Len(replies[s]) :
               /\ Failure(replies[s][k])
               /\ \A j \in 1..(k - 1) : ~Failure(replies[s][j])
       ELSE 0

\* The calls create_order owes the first k lines of a request, in input order.
CallsFor(request, k) == [j \in 1..k |-> InventoryCall(request.order_lines[j])]

\* Some row of order `id` is among `rows`.
HasOrder(rows, id) ==
    \/ \E h \in rows.headers : h.order_id = id
    \/ \E l \in rows.lines : l.order_id = id

\* The rows create_order builds for a request under order id `id`.
LinesFor(request, id) ==
    {OrderLine(id, k, request.order_lines[k]) : k \in 1..Len(request.order_lines)}

Staged(s) ==
    \/ session[s].txHeaders # {} \/ session[s].txLines # {}
    \/ session[s].pendingHeaders # <<>> \/ session[s].pendingLines # <<>>

\* C1: when the inventory call for line k is the first to fail, exactly k calls
\* have been issued and are ever issued, for lines 1..k in input order, and no
\* header and no line of the request is committed or visible to another session.
C1_FailFastFullRollback ==
    \A s \in Slots :
        LET k == FirstFailure(s) IN
        k > 0 =>
            /\ calls[s] = CallsFor(order_request[s], k)
            /\ ~HasOrder(db, new_order[s])
            /\ \A t \in Slots \ {s} : ~HasOrder(visible(db, session[t]), new_order[s])

C1_Witness ==
    \E s \in Slots :
        /\ Len(order_request[s].order_lines) = 3
        /\ FirstFailure(s) = 2
        /\ pc[s] = "exit"

\* A header of `rows` has all of its lines there: line_numbers 1..total_items,
\* one line each.
Complete(rows, h) ==
    LET ls == order_lines_of(rows, h) IN
    /\ {l.line_number : l \in ls} = 1..h.total_items
    /\ Cardinality(ls) = h.total_items

\* C2: whatever a session other than the writer reads is committed, and every
\* header it reads comes with all of its lines; what read_order and
\* read_all_orders selected and returned is a committed header with all its lines.
C2_AtomicVisibility ==
    /\ \A s, t \in Slots : s # t =>
          /\ session[s].txHeaders \cap visible(db, session[t]).headers = {}
          /\ session[s].txLines \cap visible(db, session[t]).lines = {}
    /\ \A t \in Slots :
          /\ \A h \in visible(db, session[t]).headers \ session[t].txHeaders :
                Complete(visible(db, session[t]), h)
          /\ \A i \in 1..Len(order_model[t]) :
                /\ order_model[t][i] \in db.headers
                /\ Complete(db, order_model[t][i])
          /\ \A i \in 1..Len(response[t].content) :
                LET o == response[t].content[i] IN
                /\ \E h \in db.headers : h.order_id = o.order_id /\ order_lines_of(db, h) = o.order_lines
                /\ {l.line_number : l \in o.order_lines} = 1..o.total_items

\* read_order has asked for the order another request holds staged, and has
\* found nothing.
C2_Witness ==
    \E s, t \in Slots :
        /\ s # t
        /\ session[s].txHeaders # {} /\ session[s].pendingLines # <<>>
        /\ pc[t] = "exit" /\ route[t] = GET_ORDER
        /\ param[t].order_id = new_order[s] /\ response[t].status = 404

\* C3: every committed header has total_items equal to the number of its lines,
\* whose line_numbers are exactly 1..total_items, one line each; the lines of a
\* request just committed are its order_lines in input order, whatever
\* total_items the body named.
C3_HeaderLineInvariant ==
    /\ \A h \in db.headers : Complete(db, h)
    /\ \A s \in Slots :
          (new_order[s] # 0 /\ HasOrder(db, new_order[s])) =>
             /\ \E h \in db.headers :
                   /\ h.order_id = new_order[s]
                   /\ h.total_items = Len(order_request[s].order_lines)
                   /\ order_lines_of(db, h) = LinesFor(order_request[s], new_order[s])

\* An order is committed whose body named a total_items other than its length.
C3_Witness ==
    \E s \in Slots :
        /\ new_order[s] # 0 /\ HasOrder(db, new_order[s])
        /\ order_request[s].total_items = {1}
        /\ Len(order_request[s].order_lines) = 2

\* C4: once create_order has staged its header, an error leaves the handler
\* only after the local transaction has been rolled back.
C4_RollbackBeforeErrorSurfaces ==
    \A s \in Slots :
        (pc[s] = "exit" /\ route[s] = POST_ORDERS /\ new_order[s] # 0
            /\ response[s].status >= 400) => ~Staged(s)

\* C5: an order is committed only by a request that has issued exactly one
\* inventory call per line, in input order, each answered with success before
\* the next was issued; the request then answers 201 with the order's id.
C5_CommitOnlyAfterAllLines ==
    \A s \in Slots :
        /\ Len(calls[s]) - Len(replies[s]) = (IF pc[s] = "inventory" THEN 1 ELSE 0)
        /\ (new_order[s] # 0 /\ HasOrder(db, new_order[s])) =>
              /\ pc[s] \in {"refetch", "exit"}
              /\ calls[s] = CallsFor(order_request[s], Len(order_request[s].order_lines))
              /\ Len(replies[s]) = Len(calls[s])
              /\ \A k \in 1..Len(replies[s]) : ~Failure(replies[s][k])
              /\ (pc[s] = "exit" /\ response[s].status < 400) =>
                    /\ response[s].status = 201
                    /\ response[s].detail = "Order created successfully"
                    /\ response[s].order = new_order[s]
        /\ response[s].status = 201 =>
              \E h \in db.headers : h.order_id = response[s].order /\ h.order_id = new_order[s]

C5_Witness ==
    \E s \in Slots :
        /\ pc[s] = "exit" /\ response[s].status = 201
        /\ Len(calls[s]) = 3

\* The body of a POST request has been parsed.
Parsed(s) ==
    route[s] = POST_ORDERS /\ pc[s] \notin {"idle", "validate_token", "permission_checker",
                                            "request_validation"}
    /\ session[s].state = "open"

\* C6: a POST request whose order_lines is empty is rejected as an invalid
\* request before create_order is entered: no inventory call is issued and
\* nothing is staged or committed for it.
C6_EmptyOrderRejected ==
    \A s \in Slots :
        (Parsed(s) /\ order_request[s].order_lines = <<>>) =>
            /\ pc[s] = "exit"
            /\ response[s] = Error(422, "InvalidRequest")
            /\ "create_order" \notin Range(trace[s])
            /\ calls[s] = <<>>
            /\ new_order[s] = 0
            /\ ~Staged(s)
            /\ \A h \in db.headers : h.total_items > 0

C6_Witness ==
    \E s \in Slots :
        /\ Parsed(s) /\ order_request[s].order_lines = <<>>
        /\ response[s].status = 422

\* A credential validate_token rejects whatever the clock reads.
NeverValid(c) ==
    \/ c.cred # "jwt" \/ c.key # JWT_SECRET_KEY \/ c.alg # ALGORITHM
    \/ c.claims.exp = {} \/ c.claims.username = {} \/ c.claims.user_id = {}

Handlers == {"create_order", "read_order", "read_all_orders"}

\* C7: validate_token is the first component to run for a request, the
\* permission check runs only after it has succeeded and the handler only after
\* both; a request whose token is rejected is answered 401, never 403, with
\* neither the permission check nor the handler run.
C7_GuardOrdering ==
    \A s \in Slots :
        /\ \A i \in 1..Len(trace[s]) :
              /\ trace[s][i] = "validate_token" <=> i = 1
              /\ trace[s][i] = "permission_checker" <=> i = 2
              /\ trace[s][i] \in Handlers <=> i = 3
        /\ (NeverValid(credentials[s]) /\ pc[s] \notin {"idle", "validate_token"}) =>
              /\ pc[s] = "exit"
              /\ response[s].status = 401
              /\ trace[s] = <<"validate_token">>
        /\ response[s].status = 401 => trace[s] = <<"validate_token">>
        /\ response[s].status = 403 =>
              /\ trace[s] = <<"validate_token", "permission_checker">>
              /\ ~NeverValid(credentials[s])
              /\ payload[s] = credentials[s].claims

\* A token that is rejected and whose claims lack the permission of the route.
C7_Witness ==
    \E s \in Slots :
        /\ pc[s] = "exit" /\ response[s].status = 401
        /\ credentials[s].cred = "jwt"
        /\ Get(credentials[s].claims.permissions, {}) \cap RoutePermissions(route[s]) = {}

\* C8: check_permissions accepts exactly when the token holds at least one of
\* the required permissions, a missing permissions claim counting as none, and
\* answers 403 otherwise; check_roles does the same over the roles claim.
C8_AnyOfRequired ==
    /\ guard.pc = "permission_checker" =>
          guard.status =
             IF guard.required \cap Get(guard.validated.payload.permissions, {}) # {}
                THEN 200 ELSE 403
    /\ guard.pc = "role_checker" =>
          guard.status =
             IF guard.required \cap Get(guard.validated.payload.roles, {}) # {}
                THEN 200 ELSE 403

\* Accepted while holding one of two required permissions, not both.
C8_Witness ==
    /\ guard.pc = "permission_checker" /\ guard.status = 200
    /\ Cardinality(guard.required) = 2
    /\ Cardinality(guard.required \cap Get(guard.validated.payload.permissions, {})) = 1

\* The permission check has run for the request, and let it pass.
Decided(s) == Len(trace[s]) >= 2
Permitted(s) == Decided(s) /\ response[s].status # 403

\* C9 as stated: POST /orders/ is permitted exactly for tokens holding
\* manage_orders, the GET routes exactly for tokens holding manage_orders or
\* view_orders.
C9_RoutePermissionsAsStated ==
    \A s \in Slots :
        Decided(s) =>
           (Permitted(s) <=>
               Get(payload[s].permissions, {}) \cap
                  (IF route[s] = POST_ORDERS THEN {"manage_orders"}
                   ELSE {"manage_orders", "view_orders"}) # {})

\* C9 amended: POST /orders/ is permitted exactly for tokens holding
\* manage_orders_ORDER_SERVICE, the GET routes exactly for tokens holding
\* manage_orders_ORDER_SERVICE or view_orders_ORDER_SERVICE; a token holding
\* only view_orders_ORDER_SERVICE never enters create_order.
C9_RoutePermissions ==
    \A s \in Slots :
        /\ Decided(s) =>
              (Permitted(s) <=>
                  Get(payload[s].permissions, {}) \cap
                     (IF route[s] = POST_ORDERS THEN {"manage_orders_ORDER_SERVICE"}
                      ELSE {"manage_orders_ORDER_SERVICE", "view_orders_ORDER_SERVICE"}) # {})
        /\ (route[s] = POST_ORDERS
              /\ Get(credentials[s].claims.permissions, {}) = {"view_orders_ORDER_SERVICE"}) =>
              "create_order" \notin Range(trace[s])

\* A token holding only view_orders_ORDER_SERVICE is refused on POST /orders/.
C9_Witness ==
    \E s \in Slots :
        /\ route[s] = POST_ORDERS /\ pc[s] = "exit" /\ response[s].status = 403
        /\ Get(payload[s].permissions, {}) = {"view_orders_ORDER_SERVICE"}

\* C10: a correctly signed token is rejected with 401 when it has no exp claim
\* or when the clock at validation reads exp or later.
C10_ExpiredFromExpOn ==
    (/\ guard.pc = "validate_token"
     /\ guard.credentials.cred = "jwt"
     /\ guard.credentials.key = JWT_SECRET_KEY /\ guard.credentials.alg = ALGORITHM
     /\ \/ guard.credentials.claims.exp = {}
        \/ guard.now >= Get(guard.credentials.claims.exp, 0) * TicksPerSecond)
    => guard.validated.status = 401

\* The claims of a token made by encoding `guard.encoded` have come back from
\* validate_token.
Encoded == guard.pc = "validate_token" /\ guard.encoded # NoClaims

RoundTrip ==
    /\ guard.validated.status = 200
    /\ guard.validated.payload.username = guard.encoded.username
    /\ guard.validated.payload.user_id = guard.encoded.user_id
    /\ guard.validated.payload.roles = guard.encoded.roles
    /\ guard.validated.payload.permissions = guard.encoded.permissions

\* C11 as stated: claims with username, user_id, roles, permissions and an exp
\* later than the clock at validation, encoded with the shared secret and the
\* configured algorithm, come back from validate_token with the same username,
\* user_id, roles and permissions.
C11_RoundTripAsStated ==
    (Encoded /\ guard.now < Get(guard.encoded.exp, 0)) => RoundTrip

\* C11 amended: the same, for claims whose exp, cut down to the whole second
\* the token carries, is later than the clock at validation.
C11_RoundTrip ==
    (Encoded /\ guard.now < (Get(guard.encoded.exp, 0) \div TicksPerSecond) * TicksPerSecond)
    => RoundTrip

\* A round trip of claims with permissions, a role and an exp between two
\* whole seconds.
C11_Witness ==
    /\ Encoded /\ RoundTrip
    /\ guard.encoded.permissions # {{}} /\ guard.encoded.roles # {{}}
    /\ Get(guard.encoded.exp, 0) % TicksPerSecond # 0

\* A token signed with the shared secret under the configured algorithm.
CorrectlySigned(c) == c.cred = "jwt" /\ c.key = JWT_SECRET_KEY /\ c.alg = ALGORITHM

LacksSubject(c) == c.claims.username = {} \/ c.claims.user_id = {}

\* C12: a correctly signed token whose claims lack username or user_id is
\* answered 401 by validate_token, which returns no payload, and neither the
\* permission check nor the role check is run on it.
C12_SubjectRequired ==
    (CorrectlySigned(guard.credentials) /\ LacksSubject(guard.credentials)
        /\ guard.pc # "idle") =>
       /\ guard.pc = "validate_token"
       /\ guard.validated.status = 401
       /\ guard.validated.payload = NoClaims

\* An unexpired token without username, turned down for its payload.
C12_Witness ==
    /\ guard.pc = "validate_token"
    /\ CorrectlySigned(guard.credentials)
    /\ guard.credentials.claims.username = {} /\ guard.credentials.claims.user_id # {}
    /\ guard.validated = Unauthorized("Token payload is invalid.")

\* The last inventory call of a request has come back with this outcome.
LastReply(s) == replies[s][Len(replies[s])]
Replied(s) == replies[s] # <<>> /\ Len(replies[s]) = Len(calls[s])

\* C13: an inventory call that comes back with any 2xx status counts as
\* successful: it triggers no rollback and the request goes on to the next
\* line or to commit.
C13_Any2xxIsSuccess ==
    \A s \in Slots :
        (Replied(s) /\ ~LastReply(s).raised /\ LastReply(s).status_code \in 200..299) =>
            /\ index[s] = Len(replies[s])
            /\ response[s].detail # "Failed to update item quantity"

\* C14: every inventory call that does not succeed, a call that raises
\* included, ends the request with status 400.
C14_InventoryFailureIs400 ==
    \A s \in Slots :
        (Replied(s) /\ Failure(LastReply(s))) =>
            pc[s] = "exit" /\ response[s].status = 400

\* The request failed on the inventory call for this item.
FailedOnItem(s, item_id) ==
    /\ pc[s] = "exit" /\ Replied(s) /\ Failure(LastReply(s))
    /\ calls[s][Len(calls[s])].item_id = item_id

\* C15: two requests that failed on the inventory calls for different items
\* are answered with different errors.
C15_ErrorNamesFailingItem ==
    \A s, t \in Slots :
        \A i, j \in {1, 2} :
            (FailedOnItem(s, i) /\ FailedOnItem(t, j) /\ i # j) => response[s] # response[t]

\* C16: the only calls create_order issues are the decrements of the lines of
\* the request, one per line and in input order; a request that has failed has
\* issued one call per reply and nothing after the failure, and a request that
\* failed on an inventory call has no order committed.
C16_NoRemoteCompensation ==
    \A s \in Slots :
        /\ Len(calls[s]) <= Len(order_request[s].order_lines)
        /\ \A j \in 1..Len(calls[s]) :
              calls[s][j] = [item_id |-> order_request[s].order_lines[j].item_id,
                             change_quantity |-> order_request[s].order_lines[j].quantity]
        /\ (pc[s] = "exit" /\ response[s].status \in {400, 500}) =>
              Len(calls[s]) = Len(replies[s])
        /\ (pc[s] = "exit" /\ new_order[s] # 0 /\ Replied(s) /\ Failure(LastReply(s))) =>
              ~HasOrder(db, new_order[s])

\* Every line's decrement was applied remotely, the commit failed, and no
\* order of the request is committed.
C16_Witness ==
    \E s \in Slots :
        /\ pc[s] = "exit" /\ response[s].status \in {400, 500}
        /\ Len(replies[s]) = Len(order_request[s].order_lines) /\ Len(replies[s]) >= 2
        /\ \A k \in 1..Len(replies[s]) :
              ~replies[s][k].raised /\ replies[s][k].status_code = 200
        /\ ~HasOrder(db, new_order[s])

\* The committed headers with this id.
Committed(id) == {h \in db.headers : h.order_id = id}

\* C17: read_order answers 404 for an order_id no committed header has, and for
\* the order_id of a committed header returns that header with its lines, as
\* many lines as its total_items says.
C17_ReadOrder ==
    \A s \in Slots :
        (route[s] = GET_ORDER /\ pc[s] = "exit" /\ param[s].order_id > 0) =>
            IF Committed(param[s].order_id) = {}
               THEN response[s].status = 404
               ELSE /\ response[s].status = 200
                    /\ Len(response[s].content) = 1
                    /\ LET order == response[s].content[1] IN
                       /\ order.order_id = param[s].order_id
                       /\ \E h \in Committed(param[s].order_id) :
                             order.user_id = h.user_id /\ order.total_items = h.total_items
                       /\ order.order_lines =
                             {l \in db.lines : l.order_id = param[s].order_id}
                       /\ Cardinality(order.order_lines) = order.total_items

\* An order of three lines has been read.
C17_Witness ==
    \E s \in Slots :
        /\ route[s] = GET_ORDER /\ pc[s] = "exit" /\ response[s].status = 200
        /\ Cardinality(response[s].content[1].order_lines) = 3

\* q is in this order of the column: non-decreasing, or non-increasing.
Sorted(q, column, ascending) ==
    \A i, j \in 1..Len(q) : i < j =>
        LET a == IF column = "total_items" THEN q[i].total_items ELSE q[i].order_id
            b == IF column = "total_items" THEN q[j].total_items ELSE q[j].order_id
        IN IF ascending THEN a <= b ELSE a >= b

ReadAll(s) == route[s] = GET_ORDERS /\ pc[s] \in {"serialize", "exit"}

\* C18: read_all_orders with order_by=total_items and ascending=false returns
\* headers non-increasing in total_items; with ascending=true they are
\* non-decreasing in the chosen column; an order_by outside the allow-list is
\* no error and the result is ordered by order_id.
C18_ReadAllOrdering ==
    \A s \in Slots :
        ReadAll(s) =>
            /\ (param[s].order_by = {"total_items"} /\ ~param[s].ascending) =>
                  Sorted(order_model[s], "total_items", FALSE)
            /\ param[s].ascending =>
                  Sorted(order_model[s],
                         IF param[s].order_by = {"total_items"} THEN "total_items"
                         ELSE "order_id", TRUE)
            /\ param[s].order_by = {"bogus"} =>
                  /\ Sorted(order_model[s], "order_id", param[s].ascending)
                  /\ pc[s] = "exit" => response[s].status = 200

\* Orders of different sizes returned largest first.
C18_Witness ==
    \E s \in Slots :
        /\ route[s] = GET_ORDERS /\ pc[s] = "exit" /\ response[s].status = 200
        /\ param[s].order_by = {"total_items"} /\ ~param[s].ascending
        /\ Len(response[s].content) = 3
        /\ response[s].content[1].total_items > response[s].content[3].total_items

\* C19: with limit = n the result of read_all_orders is the first
\* min(n, number of committed orders) headers of whatever the same query
\* returns without limit, also when orders tie on the ordering column.
C19_LimitDeterministic ==
    \A s \in Slots :
        (ReadAll(s) /\ param[s].limit # {}) =>
            \A q \in Orderings(db.headers, order_by_column(param[s].order_by),
                                param[s].ascending) :
                LET n == IF Get(param[s].limit, 0) < Len(q)
                            THEN Get(param[s].limit, 0) ELSE Len(q)
                IN order_model[s] = SubSeq(q, 1, n)

\* C20: no step of the service deletes a committed header or line, changes one
\* of their columns, gives an order_id to a second header or adds a line to a
\* committed order, so reading a committed order returns the same header and
\* the same lines ever after.
C20_CommittedPermanent ==
    [][/\ db.headers \subseteq db'.headers
       /\ db.lines \subseteq db'.lines
       /\ \A h \in db.headers :
             /\ {g \in db'.headers : g.order_id = h.order_id} = {h}
             /\ {l \in db'.lines : l.order_id = h.order_id} =
                   {l \in db.lines : l.order_id = h.order_id}]_vars

\* A second order has been committed next to the first, which is still there
\* with its lines.
C20_Witness ==
    /\ Cardinality(db.headers) = 2
    /\ \A h \in db.headers :
          Cardinality({l \in db.lines : l.order_id = h.order_id}) = h.total_items

\* create_order has run for the request and has returned or raised.
Created(s) == "create_order" \in Range(trace[s]) /\ pc[s] = "exit"

\* C24: create_order answers 201 with the order id exactly when the order of
\* the request is committed, and whenever it answers 400 or 500 no header and
\* no line of the request is committed.
C24_ResponseAgreesWithState ==
    \A s \in Slots :
        Created(s) =>
            /\ response[s].status = 201 <=>
                  (new_order[s] # 0 /\ HasOrder(db, new_order[s]))
            /\ response[s].status = 201 => response[s].order = new_order[s]
            /\ response[s].status \in {400, 500} =>
                  (new_order[s] = 0 \/ ~HasOrder(db, new_order[s]))

\* The rows with an order id that the session of a request holds uncommitted.
StagedIds(s) ==
    {h.order_id : h \in session[s].txHeaders}
    \cup {l.order_id : l \in session[s].txLines \cup Range(session[s].pendingLines)}

\* The step discards the uncommitted rows of request s.
RollsBack(s) == Staged(s) /\ ~Staged(s)' /\ ~HasOrder(db', new_order[s])

\* C21: under every interleaving of create_order requests the committed
\* headers have pairwise distinct order_ids, requests in service hold distinct
\* order_ids, the committed lines of an order are exactly the lines of the
\* request that created it, and a step that rolls one request back leaves the
\* committed rows and the staged rows of every other request as they were.
C21_ConcurrentCreationsIsolated ==
    /\ [](\A s \in Slots :
            /\ \A g, h \in db.headers : g.order_id = h.order_id => g = h
            /\ \A t \in Slots \ {s} : new_order[s] # 0 => new_order[s] # new_order[t]
            /\ StagedIds(s) \subseteq {new_order[s]}
            /\ (new_order[s] # 0 /\ HasOrder(db, new_order[s])) =>
                  /\ {l \in db.lines : l.order_id = new_order[s]} =
                        {[order_id |-> new_order[s], line_number |-> k,
                          item_id |-> order_request[s].order_lines[k].item_id,
                          quantity |-> order_request[s].order_lines[k].quantity] :
                            k \in 1..Len(order_request[s].order_lines)}
                  /\ \A h \in db.headers : h.order_id = new_order[s] =>
                        h.user_id = order_request[s].user_id)
    /\ [][\A s \in Slots :
            RollsBack(s) =>
                /\ db' = db
                /\ \A t \in Slots \ {s} : session'[t] = session[t]]_vars

\* One request has committed its order while another, which took its order id
\* earlier, still holds its rows uncommitted.
C21_Witness ==
    \E s, t \in Slots :
        /\ new_order[s] # 0 /\ HasOrder(db, new_order[s])
        /\ new_order[t] # 0 /\ new_order[t] < new_order[s]
        /\ session[t].txHeaders # {} /\ session[t].pendingLines # <<>>

\* The order lines of the request that its session holds, added or flushed.
StagedLines(s) == Len(session[s].pendingLines) + Cardinality(session[s].txLines)

\* C23: once a create_order request has issued an inventory call, its header
\* and all n of its order lines are already staged in its transaction.
C23_AllLinesStagedBeforeFirstCall ==
    \A s \in Slots :
        (pc[s] = "inventory" /\ calls[s] # <<>>) =>
            /\ session[s].txHeaders # {}
            /\ StagedLines(s) = Len(order_request[s].order_lines)

\* The request was turned down by the guard or by input validation, or is a
\* read.
RejectedOrRead(s) ==
    \/ response[s].status \in {401, 403, 422}
    \/ pc[s] # "idle" /\ route[s] \in {GET_ORDERS, GET_ORDER}

\* The step is one of request s.
Steps(s) == pc'[s] # pc[s] \/ session'[s] # session[s] \/ response'[s] # response[s]

\* C25: a request rejected by the guard or by input validation, and every
\* read_order or read_all_orders request, stages nothing and issues no
\* inventory call, and none of its steps changes the committed headers and
\* lines.
C25_RejectedAndReadsChangeNothing ==
    /\ [](\A s \in Slots :
            RejectedOrRead(s) =>
                /\ ~Staged(s)
                /\ new_order[s] = 0
                /\ calls[s] = <<>> /\ replies[s] = <<>>)
    /\ [][\A s \in Slots :
            (Steps(s) /\ (RejectedOrRead(s) \/ RejectedOrRead(s)')) =>
                db' = db /\ calls'[s] = <<>>]_vars

\* With an order committed, a later POST request has been refused by the guard.
C25_Witness ==
    /\ db.headers # {}
    /\ \E s \in Slots :
          /\ pc[s] = "exit" /\ response[s].status = 403
          /\ route[s] = POST_ORDERS

\* C22: with every inventory call and database operation returning, a request
\* that has entered create_order ends committed or rolled back; it issues at
\* most one call per line, each for the line of its position, never goes back
\* to an earlier line or a new header, and once create_order has returned or
\* raised it issues no call and writes nothing.
C22_TerminatesWithoutRetries ==
    /\ \A s \in Slots : (pc[s] = "create_order") ~> Created(s)
    /\ [](\A s \in Slots :
            /\ Len(calls[s]) <= Len(order_request[s].order_lines)
            /\ \A j \in 1..Len(calls[s]) :
                  calls[s][j].item_id = order_request[s].order_lines[j].item_id
            /\ Len(calls[s]) \in {index[s], index[s] + 1}
            /\ Created(s) => (HasOrder(db, new_order[s]) => ~Staged(s))
            /\ pc[s] = "idle" => ~Staged(s))
    /\ [][\A s \in Slots :
            /\ (pc[s] # "exit") =>
                  /\ index'[s] >= index[s]
                  /\ new_order[s] # 0 => new_order'[s] = new_order[s]
            /\ (pc[s] = "exit" /\ Steps(s)) =>
                  /\ db' = db
                  /\ calls'[s] = <<>> /\ ~Staged(s)']_vars

\* A request of three lines rolled back on the call for its last line.
C22_Witness ==
    \E s \in Slots :
        /\ Created(s) /\ ~Staged(s)
        /\ Len(calls[s]) = 3 /\ Replied(s) /\ Failure(LastReply(s))
        /\ ~LastReply(s).raised
        /\ ~HasOrder(db, new_order[s])

====
